---- MODULE Spec2Model ----
(***************************************************************************)
(* Model of script_fetch_data/fetch_posts.py: the concurrent               *)
(* fetch / aggregate / persist pipeline.  One run is one process: the      *)
(* module-level code opens the database, main() awaits fetch_all_posts,    *)
(* which gathers one fetch_post coroutine per identifier, and then writes  *)
(* the posts to the posts table (save_to_db) and to posts.csv              *)
(* (save_to_csv).  The table and the CSV file outlive the process.         *)
(*                                                                         *)
(* Python values are tagged records: None is [t |-> "None"], a dict is     *)
(* [t |-> "dict", d |-> f] with f a function from the keys present to      *)
(* their values.  Response bodies follow the schema of the remote API:     *)
(* JSON objects over the keys id, userId, title, body (any of them may be  *)
(* missing), the JSON literal null, or text that is not JSON.  Bodies of   *)
(* another shape (a JSON number or list, an object with further keys, an   *)
(* id that is not an integer) are not modelled.  The test mode of the      *)
(* command line (string identifiers, empty base URL) is not modelled       *)
(* either: identifiers are integers under DEFAULT_URL.                     *)
(*                                                                         *)
(* Two more programs of the repository are modelled, each under its own    *)
(* specification: validate_product of                                      *)
(* file_processing_xml_json/convert_xml_to_json.py (SpecValidate), applied *)
(* to the dicts xmltodict yields, and the task store of                    *)
(* script_task_manager/task_manager.py (SpecTasks).  Their texts are       *)
(* sequences of characters, so that strip, isdigit, int, float and         *)
(* strptime are computed on the characters.                                *)
(***************************************************************************)
EXTENDS Integers, Sequences, FiniteSets, TLC

\* ------------------------------------------------------------------ bounds
MaxBatch == 2      \* longest identifier batch of a run
MaxRuns == 2       \* number of pipeline runs (processes) in a behaviour
MaxRequests == 3   \* number of requests issued in a behaviour, over all runs
MaxLen == 3        \* longest text of a product's price
MaxText == 1       \* longest text of a product's id, name, category
MaxTasks == 2      \* number of tasks the store ever inserts

\* --------------------------------------------------------------- constants
DEFAULT_URL == "https://jsonplaceholder.typicode.com/posts/"
HTTP_OK == 200

\* identifiers of a batch, and the values a response object can carry
Ids == {1, 2}
Keys == {"id", "userId", "title", "body"}
fieldnames == <<"id", "userId", "title", "body">>

PyNone == [t |-> "None"]
PyDict(f) == [t |-> "dict", d |-> f]

Restrict(f, K) == [k \in K |-> f[k]]

\* response objects: complete ones (two with the same id and different
\* contents, one with another id), one that lacks "title", and the empty object
Payloads ==
    LET p1a == [id |-> 1, userId |-> 7, title |-> "a", body |-> "x"]
        p1b == [id |-> 1, userId |-> 7, title |-> "b", body |-> "x"]
        p2a == [id |-> 2, userId |-> 7, title |-> "a", body |-> "x"]
    IN  {p1a, p1b, p2a, Restrict(p1a, Keys \ {"title"}), Restrict(p1a, {})}

\* Content-Type values, as the sequence of their parts; a response without
\* the header gives headers.get("Content-Type", "") = ""
JsonContentType == <<"application/json", "charset=utf-8">>
HtmlContentType == <<"text/html", "charset=utf-8">>
NoContentType == <<>>

\* what the remote end can do with one GET
Responses ==
    {[kind |-> "timeout"], [kind |-> "neterror"]}
    \cup [kind : {"http"}, status : {404}, ctype : {JsonContentType},
          body : {[json |-> "object", d |-> Restrict(<<>>, {})]}]
    \cup [kind : {"http"}, status : {HTTP_OK}, ctype : {HtmlContentType, NoContentType},
          body : {[json |-> "invalid"]}]
    \cup [kind : {"http"}, status : {HTTP_OK}, ctype : {JsonContentType},
          body : {[json |-> "invalid"], [json |-> "null"]}
                 \cup {[json |-> "object", d |-> p] : p \in Payloads}]

NoResponse == [kind |-> "pending"]

VARIABLES
    runs,          \* processes started so far
    issued,        \* requests dispatched so far, over all runs
    pc,            \* position of the current process
    post_ids,      \* main's post_ids
    task,          \* per position: "created", "inflight", "done"
    attempts,      \* per position: session.get calls issued
    req,           \* per position: the URL requested
    resp,          \* per position: what the remote end answered
    doneLog,       \* (position, return value) of fetch_post, in completion order
    results,       \* what asyncio.gather returned
    posts,         \* what fetch_all_posts returned
    summary,       \* the counts of the "Fetched count" log line
    err,           \* the exception that ended the run, if any
    pending,       \* rows written to the connection and not committed
    table,         \* the posts table: rowid -> row
    csv,           \* the lines of posts.csv; <<>> while the file does not exist
    tableAtStart,  \* the table when the current process started
    csvAtStart,    \* the file when the current process started
    product,       \* convert_xml_to_json: the argument of validate_product
    outcome,       \* convert_xml_to_json: how validate_product ended, its log lines
    tasks,         \* task_manager: the tasks table, id -> row
    seq,           \* task_manager: the largest id AUTOINCREMENT has given out
    logged         \* task_manager: the lines the last call logged

vars == <<runs, issued, pc, post_ids, task, attempts, req, resp, doneLog, results, posts,
          summary, err, pending, table, csv, tableAtStart, csvAtStart,
          product, outcome, tasks, seq, logged>>

fetchVars == <<post_ids, task, attempts, req, resp>>
sinkVars == <<pending, table, csv, tableAtStart, csvAtStart>>

\* the state of the fetch pipeline, of the product validation, of the task
\* store: three programs that share nothing
pipelineVars == <<runs, issued, pc, doneLog, results, posts, summary, err, fetchVars, sinkVars>>
validateVars == <<product, outcome>>
taskVars == <<tasks, seq, logged>>
otherVars == <<validateVars, taskVars>>

Slots == 1..Len(post_ids)

\* ------------------------------------------------------------ fetch_post
UrlWithoutId(base_url, post_id) == base_url

\* f"{base_url}{post_id}"
Url(base_url, post_id) == base_url \o ToString(post_id)

\* "application/json" in content_type
IsJsonContentType(content_type) ==
    \E i \in 1..Len(content_type) : content_type[i] = "application/json"

\* response.json(): the parsed body; text that is not JSON raises
JsonRaises(body) == body.json = "invalid"
JsonValue(body) == IF body.json = "null" THEN PyNone ELSE PyDict(body.d)

Raise(exc) == [t |-> "raise", exc |-> exc]

\* the try block of fetch_post: the value it returns or the exception it raises
TryBlock(r) ==
    IF r.kind = "timeout" THEN Raise("TimeoutError")
    ELSE IF r.kind = "neterror" THEN Raise("ClientError")
    ELSE IF r.status = HTTP_OK
         THEN IF IsJsonContentType(r.ctype)
              THEN IF JsonRaises(r.body) THEN Raise("JSONDecodeError")
                   ELSE JsonValue(r.body)
              ELSE PyNone
         ELSE PyNone

FetchPostNoCatchAll(r) ==
    LET o == TryBlock(r)
    IN  IF o.t = "raise" /\ o.exc = "TimeoutError" THEN PyNone ELSE o

\* fetch_post: the try block under "except asyncio.TimeoutError" and
\* "except Exception", both of which log and return None
FetchPost(r) ==
    LET o == TryBlock(r)
    IN  IF o.t = "raise"
        THEN IF o.exc = "TimeoutError" THEN PyNone ELSE PyNone
        ELSE o

TaskStateRetryOnFailure(ret) == IF ret = PyNone THEN "created" ELSE "done"

\* every path of fetch_post returns: the coroutine is finished after one attempt
TaskStateAfter(ret) == "done"

\* ------------------------------------------------------- fetch_all_posts
GatherAsCompleted(log, n) == [i \in 1..n |-> log[i].val]

\* asyncio.gather: the return values in the order of the awaitables
GatherResults(log, n) ==
    [i \in 1..n |-> log[CHOOSE k \in 1..Len(log) : log[k].idx = i].val]

\* [result for result in results if result is not None]
ValidResults(rs) == SelectSeq(rs, LAMBDA result : result # PyNone)

\* the counts logged after the gather: fetched, successful, failed
Summary(ids, valid_results) ==
    [fetched |-> Len(ids), ok |-> Len(valid_results),
     failed |-> Len(ids) - Len(valid_results)]

\* ------------------------------------------------------------ save_to_db
AllKeysExistIdOnly(post) == "id" \in DOMAIN post.d

\* the key loop of save_to_db: every key of the list is in the dict
AllKeysExist(post) == \A i \in 1..Len(fieldnames) : fieldnames[i] \in DOMAIN post.d

\* "if post": None and the empty dict are falsy
Truthy(post) == post # PyNone /\ DOMAIN post.d # {}

ValidPosts(ps) == SelectSeq(ps, LAMBDA post : Truthy(post) /\ AllKeysExist(post))

\* post["id"], ... raise KeyError when the key is missing
RaisesKeyError(valid_posts) ==
    \E i \in 1..Len(valid_posts) : ~(Keys \subseteq DOMAIN valid_posts[i].d)

\* (post["id"], post["userId"], post["title"], post["body"])
Row(post) ==
    [id |-> post.d["id"], user_id |-> post.d["userId"],
     title |-> post.d["title"], body |-> post.d["body"]]

Rows(valid_posts) == [i \in 1..Len(valid_posts) |-> Row(valid_posts[i])]

InsertNewRowid(t, row) ==
    LET next == IF DOMAIN t = {} THEN 1
                ELSE 1 + CHOOSE m \in DOMAIN t : \A k \in DOMAIN t : k <= m
    IN  [k \in DOMAIN t \cup {next} |-> IF k = next THEN row ELSE t[k]]

InsertOrIgnore(t, row) ==
    [k \in DOMAIN t \cup {row.id} |-> IF k \in DOMAIN t THEN t[k] ELSE row]

\* INSERT OR REPLACE on a table whose id column is the INTEGER PRIMARY KEY:
\* the rowid is the id, and a row with the same id is replaced
InsertOrReplace(t, row) ==
    [k \in DOMAIN t \cup {row.id} |-> IF k = row.id THEN row ELSE t[k]]

\* cursor.executemany: the statement once per row, in order
RECURSIVE ExecuteMany(_, _)
ExecuteMany(t, rows) ==
    IF rows = <<>> THEN t
    ELSE ExecuteMany(InsertOrReplace(t, Head(rows)), Tail(rows))

\* ----------------------------------------------------------- save_to_csv
\* the keys whose values are integers (the INTEGER columns of the table);
\* the values of the others are text
IntKeys == {"id", "userId"}

\* str(value) as the csv writer applies it: the digits of an integer, a
\* text as it is
PyStr(key, value) == IF key \in IntKeys THEN ToString(value) ELSE value

\* csv.DictWriter: str() of a value, "" (restval) for a missing key
Cell(post, key) == IF key \in DOMAIN post.d THEN PyStr(key, post.d[key]) ELSE ""

CsvRow(post) == [i \in 1..Len(fieldnames) |-> Cell(post, fieldnames[i])]

CsvAppended(old, ps) ==
    old \o <<fieldnames>> \o [i \in 1..Len(ps) |-> CsvRow(ps[i])]

CsvNotTruncated(old, ps) ==
    LET new == <<fieldnames>> \o [i \in 1..Len(ps) |-> CsvRow(ps[i])]
    IN  new \o SubSeq(old, Len(new) + 1, Len(old))

CsvOnlyComplete(old, ps) ==
    LET complete == SelectSeq(ps, LAMBDA post : Keys \subseteq DOMAIN post.d)
    IN  <<fieldnames>> \o [i \in 1..Len(complete) |-> CsvRow(complete[i])]

CsvDeduplicated(old, ps) ==
    LET first == SelectSeq([i \in 1..Len(ps) |-> i],
                           LAMBDA i : \A j \in 1..(i - 1) : ps[j] # ps[i])
    IN  <<fieldnames>> \o [i \in 1..Len(first) |-> CsvRow(ps[first[i]])]

\* open(CSV_FILE, "w"), writeheader, writerows
CsvContents(old, ps) == <<fieldnames>> \o [i \in 1..Len(ps) |-> CsvRow(ps[i])]

\* --------------------------------------------------- texts and their parsing
\* A Python str is the sequence of its characters, tagged; None is PyNone.
Text(chars) == [t |-> "str", s |-> chars]

Digits == {"0", "1", "2", "3", "4", "5", "6", "7", "8", "9"}

DigitValue(c) ==
    CASE c = "0" -> 0 [] c = "1" -> 1 [] c = "2" -> 2 [] c = "3" -> 3 [] c = "4" -> 4
      [] c = "5" -> 5 [] c = "6" -> 6 [] c = "7" -> 7 [] c = "8" -> 8 [] c = "9" -> 9

\* the number a sequence of decimal digits denotes
RECURSIVE DecimalValue(_)
DecimalValue(chars) ==
    IF chars = <<>> THEN 0
    ELSE 10 * DecimalValue(SubSeq(chars, 1, Len(chars) - 1)) + DigitValue(chars[Len(chars)])

\* str.isdigit(): at least one character, every character a digit
IsDigit(chars) == chars # <<>> /\ \A i \in 1..Len(chars) : chars[i] \in Digits

\* str.strip(): without the leading and the trailing white space
RECURSIVE LStrip(_)
LStrip(chars) == IF chars # <<>> /\ chars[1] = " " THEN LStrip(Tail(chars)) ELSE chars

RECURSIVE RStrip(_)
RStrip(chars) ==
    IF chars # <<>> /\ chars[Len(chars)] = " "
    THEN RStrip(SubSeq(chars, 1, Len(chars) - 1))
    ELSE chars

Strip(chars) == RStrip(LStrip(chars))

\* str(value): the text itself, "None" for None
StrOf(value) == IF value.t = "None" THEN <<"N", "o", "n", "e">> ELSE value.s

\* float(text), for the texts over digits, signs, blanks and letters: white
\* space around is ignored, an optional sign is followed by decimal digits
\* or by "nan"; anything else raises ValueError
ParseFloat(chars) ==
    LET u == Strip(chars)
        signed == u # <<>> /\ u[1] \in {"-", "+"}
        body == IF signed THEN Tail(u) ELSE u
        negative == signed /\ u[1] = "-"
    IN  IF body = <<"n", "a", "n">> THEN [t |-> "nan"]
        ELSE IF IsDigit(body)
        THEN [t |-> "num",
              value |-> IF negative THEN 0 - DecimalValue(body) ELSE DecimalValue(body)]
        ELSE [t |-> "ValueError"]

\* price <= 0 on floats: every comparison with nan is false
FloatLeqZero(f) == f.t = "num" /\ f.value <= 0

\* ---------------------------------------------------------- validate_product
required_fields == <<"id", "name", "price", "category">>

ValidationError(e) == [level |-> "ERROR", prefix |-> "Validation error", e |-> e]

Returned(value, lines) == [t |-> "return", value |-> value, log |-> lines]
Raised(exc) == [t |-> "raise", exc |-> exc, log |-> <<>>]

\* the except clause: a ValueError is logged and False returned
CaughtValueError(e) == Returned(FALSE, <<ValidationError(e)>>)

\* value.strip() of product.get(field, ""): None has no strip
StripOfField(product_, field) ==
    IF product_[field].t = "None" THEN [t |-> "AttributeError"]
    ELSE [t |-> "str", s |-> Strip(product_[field].s)]

\* validate_product(product), product a dict from field names to values
ValidateProduct(product_) ==
    LET missing == {i \in 1..Len(required_fields) : required_fields[i] \notin DOMAIN product_}
        product_id == Strip(StrOf(product_["id"]))
        price == ParseFloat(Strip(StrOf(product_["price"])))
        name == StripOfField(product_, "name")
        category == StripOfField(product_, "category")
    IN  IF missing # {} THEN CaughtValueError("Missing required field")
        ELSE IF ~IsDigit(product_id) THEN CaughtValueError("id must be a number")
        ELSE IF price.t = "ValueError" THEN CaughtValueError("could not convert string to float")
        ELSE IF FloatLeqZero(price) THEN CaughtValueError("Price must be greater than 0")
        ELSE IF name.t = "AttributeError" THEN Raised("AttributeError")
        ELSE IF name.s = <<>> THEN CaughtValueError("Product 'name' cannot be empty")
        ELSE IF category.t = "AttributeError" THEN Raised("AttributeError")
        ELSE IF category.s = <<>> THEN CaughtValueError("Product 'category' cannot be empty")
        ELSE Returned(TRUE, <<>>)

\* the texts of at most n characters over an alphabet
TextsOver(alphabet, n) == {Text(c) : c \in UNION {[1..k -> alphabet] : k \in 0..n}}

IdChars == {" ", "1", "a"}
PriceChars == {"-", "0", "1", "a", "n"}
NameChars == {" ", "a"}

\* what a field of the parsed XML can hold: a text, or None for an empty
\* element
IdValues == {PyNone} \cup TextsOver(IdChars, MaxText)
PriceValues == {PyNone} \cup TextsOver(PriceChars, MaxLen)
NameValues == {PyNone} \cup TextsOver(NameChars, MaxText)

Absent == [t |-> "absent"]

\* the dicts with some of the four fields: each field is absent or holds one
\* of its values
ProductsOver(ids, names, prices) ==
    {[f \in {g \in DOMAIN q : q[g] # Absent} |-> q[f]] :
        q \in [id : ids \cup {Absent}, name : names \cup {Absent},
               price : prices \cup {Absent}, category : names \cup {Absent}]}

NoProduct == <<>>
NotCalled == [t |-> "not called"]

\* ------------------------------------------------------------- task store
VALID_STATUSES == {"pending", "in_progress", "completed"}

\* the status a task gets when add_task is given none
DefaultStatusNew == "new"

DefaultStatus == "pending"

\* Python truth of a str or None
TruthyText(value) == value.t = "str" /\ value.s # <<>>

\* the pieces of a text between the separators
RECURSIVE SplitOn(_, _)
SplitOn(chars, sep) ==
    IF \A i \in 1..Len(chars) : chars[i] # sep THEN <<chars>>
    ELSE LET k == CHOOSE i \in 1..Len(chars) :
                      chars[i] = sep /\ \A j \in 1..(i - 1) : chars[j] # sep
         IN  <<SubSeq(chars, 1, k - 1)>> \o SplitOn(SubSeq(chars, k + 1, Len(chars)), sep)

IsLeapYear(y) == (y % 4 = 0 /\ y % 100 # 0) \/ y % 400 = 0

DaysInMonth(y, m) ==
    IF m = 2 THEN (IF IsLeapYear(y) THEN 29 ELSE 28)
    ELSE IF m \in {4, 6, 9, 11} THEN 30 ELSE 31

\* datetime.strptime(due_date, "%Y-%m-%d"): TypeError for None; a text
\* has to be four digits, "-", a month of one or two digits, "-", a day of
\* one or two digits, and name a day of the calendar, else ValueError
Strptime(due_date) ==
    IF due_date.t = "None" THEN [t |-> "TypeError"]
    ELSE LET parts == SplitOn(due_date.s, "-")
             shape == /\ Len(parts) = 3
                      /\ Len(parts[1]) = 4 /\ IsDigit(parts[1])
                      /\ Len(parts[2]) \in {1, 2} /\ IsDigit(parts[2])
                      /\ Len(parts[3]) \in {1, 2} /\ IsDigit(parts[3])
             y == DecimalValue(parts[1])
             m == DecimalValue(parts[2])
             d == DecimalValue(parts[3])
         IN  IF shape /\ y >= 1 /\ m \in 1..12 /\ d >= 1 /\ d <= DaysInMonth(y, m)
             THEN [t |-> "date", year |-> y, month |-> m, day |-> d]
             ELSE [t |-> "ValueError"]

\* int(value) of a text: white space around is ignored, an optional sign is
\* followed by decimal digits; anything else raises ValueError
IntOf(chars) ==
    LET u == Strip(chars)
        signed == u # <<>> /\ u[1] \in {"-", "+"}
        body == IF signed THEN Tail(u) ELSE u
    IN  IF IsDigit(body)
        THEN [t |-> "int",
              value |-> IF signed /\ u[1] = "-" THEN 0 - DecimalValue(body)
                        ELSE DecimalValue(body)]
        ELSE [t |-> "ValueError"]

DigitChar(d) ==
    CASE d = 0 -> "0" [] d = 1 -> "1" [] d = 2 -> "2" [] d = 3 -> "3" [] d = 4 -> "4"
      [] d = 5 -> "5" [] d = 6 -> "6" [] d = 7 -> "7" [] d = 8 -> "8" [] d = 9 -> "9"

RECURSIVE NatChars(_)
NatChars(n) == IF n < 10 THEN <<DigitChar(n)>> ELSE NatChars(n \div 10) \o <<DigitChar(n % 10)>>

\* str(n) of an int
IntChars(n) == IF n < 0 THEN <<"-">> \o NatChars(0 - n) ELSE NatChars(n)

\* _is_valid_integer(value)
IsValidInteger(value) ==
    LET int_value == IntOf(value.s)
    IN  /\ int_value.t = "int"
        /\ IntChars(int_value.value) = value.s
        /\ \A i \in 1..Len(value.s) : value.s[i] # "."

\* the constraints of the tasks table
SchemaAccepts(row) ==
    /\ row.title.t # "None"
    /\ row.due_date.t # "None"
    /\ row.status.t = "str"
    /\ row.status.s \in {"pending", "in_progress", "completed"}

\* SELECT COUNT(*) FROM tasks WHERE id = ?, the text compared as the
\* integer it denotes
CountWithId(tbl, task_id) == Cardinality({k \in DOMAIN tbl : k = IntOf(task_id.s).value})

\* the arguments the calls are given
Titles == {PyNone, Text(<<>>), Text(<<"t">>)}
Descriptions == {PyNone, Text(<<"d">>)}
DueDates ==
    {PyNone,
     Text(<<"2", "0", "2", "5", "-", "0", "2", "-", "1", "0">>),
     Text(<<"2", "0", "2", "5", "-", "0", "2", "-", "3", "0">>),
     Text(<<"1", "0", "-", "0", "2", "-", "2", "0", "2", "5">>)}
StatusArgs == {PyNone} \cup {Text(s) : s \in VALID_STATUSES \cup {"done"}}
TaskIdArgs ==
    {Text(<<"1">>), Text(<<"2">>), Text(<<"3">>), Text(<<"0", "1">>), Text(<<" ", "1">>),
     Text(<<"1", ".", "0">>), Text(<<"x">>), Text(<<>>)}

\* ------------------------------------------------------------------ state
Batches == UNION {[1..n -> Ids] : n \in 0..MaxBatch}

NoSummary == [fetched |-> 0, ok |-> 0, failed |-> 0]

InitPipeline ==
    /\ runs = 0
    /\ issued = 0
    /\ pc = "idle"
    /\ post_ids = <<>>
    /\ task = <<>>
    /\ attempts = <<>>
    /\ req = <<>>
    /\ resp = <<>>
    /\ doneLog = <<>>
    /\ results = <<>>
    /\ posts = <<>>
    /\ summary = NoSummary
    /\ err = "none"
    /\ pending = <<>>
    /\ table = <<>>
    /\ csv = <<>>
    /\ tableAtStart = <<>>
    /\ csvAtStart = <<>>

\* TaskManager(): the table is created, empty
InitTaskStore ==
    /\ tasks = <<>>
    /\ seq = 0
    /\ logged = <<[level |-> "INFO", msg |-> "Database initialized."]>>

Init ==
    /\ InitPipeline
    /\ InitTaskStore
    /\ product = NoProduct
    /\ outcome = NotCalled

\* a process starts: the table is created if absent, main calls
\* fetch_all_posts, which creates one fetch_post coroutine per identifier
StartRun(ids) ==
    /\ pc = "idle"
    /\ runs < MaxRuns
    /\ issued + Len(ids) <= MaxRequests
    /\ runs' = runs + 1
    /\ issued' = issued + Len(ids)
    /\ pc' = "fetching"
    /\ post_ids' = ids
    /\ task' = [i \in 1..Len(ids) |-> "created"]
    /\ attempts' = [i \in 1..Len(ids) |-> 0]
    /\ req' = [i \in 1..Len(ids) |-> ""]
    /\ resp' = [i \in 1..Len(ids) |-> NoResponse]
    /\ tableAtStart' = table
    /\ csvAtStart' = csv
    /\ UNCHANGED <<doneLog, results, posts, summary, err, pending, table, csv>>
    /\ UNCHANGED otherVars

\* fetch_all_posts returns to main and its locals are gone
ReturnToMain ==
    /\ post_ids' = <<>>
    /\ task' = <<>>
    /\ attempts' = <<>>
    /\ req' = <<>>
    /\ resp' = <<>>
    /\ results' = <<>>
    /\ summary' = NoSummary
    /\ doneLog' = <<>>
    /\ UNCHANGED <<runs, issued, posts>>

FetchStartSequential(i) ==
    /\ pc = "fetching"
    /\ task[i] = "created"
    /\ \A j \in 1..(i - 1) : task[j] = "done"
    /\ task' = [task EXCEPT ![i] = "inflight"]
    /\ req' = [req EXCEPT ![i] = Url(DEFAULT_URL, post_ids[i])]
    /\ attempts' = [attempts EXCEPT ![i] = @ + 1]
    /\ UNCHANGED <<runs, issued, pc, post_ids, resp, doneLog, results, posts, summary, err>>
    /\ UNCHANGED sinkVars
    /\ UNCHANGED otherVars

\* the gather runs the coroutines in order up to their first suspension:
\* fetch_post builds the URL and issues session.get
FetchStart(i) ==
    /\ pc = "fetching"
    /\ task[i] = "created"
    /\ \A j \in 1..(i - 1) : task[j] # "created"
    /\ task' = [task EXCEPT ![i] = "inflight"]
    /\ req' = [req EXCEPT ![i] = Url(DEFAULT_URL, post_ids[i])]
    /\ attempts' = [attempts EXCEPT ![i] = @ + 1]
    /\ UNCHANGED <<runs, issued, pc, post_ids, resp, doneLog, results, posts, summary, err>>
    /\ UNCHANGED sinkVars
    /\ UNCHANGED otherVars

\* the remote end answers (or the timeout or a transport fault fires) and
\* fetch_post returns
FetchComplete(i, r) ==
    /\ pc = "fetching"
    /\ task[i] = "inflight"
    /\ LET ret == FetchPost(r)
       IN  IF ret.t = "raise"
           THEN \* the gather re-raises it: fetch_all_posts and main are left
                /\ pc' = "raised"
                /\ err' = ret.exc
                /\ ReturnToMain
           ELSE /\ task' = [task EXCEPT ![i] = TaskStateAfter(ret)]
                /\ resp' = [resp EXCEPT ![i] = r]
                /\ doneLog' = Append(doneLog, [idx |-> i, val |-> ret])
                /\ UNCHANGED <<runs, issued, pc, post_ids, attempts, req, results,
                               posts, summary, err>>
    /\ UNCHANGED sinkVars
    /\ UNCHANGED otherVars

GatherReturnFirstCompleted ==
    /\ pc = "fetching"
    /\ \/ Slots = {}
       \/ \E i \in Slots : task[i] = "done"
    /\ results' = [k \in 1..Len(doneLog) |-> doneLog[k].val]
    /\ posts' = ValidResults(results')
    /\ summary' = Summary(post_ids, posts')
    /\ pc' = "gathered"
    /\ UNCHANGED <<runs, issued, err, doneLog>>
    /\ UNCHANGED fetchVars
    /\ UNCHANGED sinkVars
    /\ UNCHANGED otherVars

\* every coroutine has returned: the gather returns its results,
\* fetch_all_posts filters them and logs the counts
GatherReturn ==
    /\ pc = "fetching"
    /\ \A i \in Slots : task[i] = "done"
    /\ results' = GatherResults(doneLog, Len(post_ids))
    /\ posts' = ValidResults(results')
    /\ summary' = Summary(post_ids, posts')
    /\ pc' = "gathered"
    /\ UNCHANGED <<runs, issued, err, doneLog>>
    /\ UNCHANGED fetchVars
    /\ UNCHANGED sinkVars
    /\ UNCHANGED otherVars

\* main: "if posts" is false, neither sink is called
SkipSinks ==
    /\ pc = "gathered"
    /\ posts = <<>>
    /\ ReturnToMain
    /\ pc' = "finished"
    /\ UNCHANGED err
    /\ UNCHANGED sinkVars
    /\ UNCHANGED otherVars

SaveToDbUnguarded ==
    /\ pc = "gathered"
    /\ ReturnToMain
    /\ LET valid_posts == ValidPosts(posts)
       IN  IF RaisesKeyError(valid_posts)
           THEN /\ pc' = "raised"
                /\ err' = "KeyError"
                /\ UNCHANGED <<pending, table>>
           ELSE /\ pc' = "db_saved"
                /\ table' = ExecuteMany(table, Rows(valid_posts))
                /\ UNCHANGED <<pending, err>>
    /\ UNCHANGED <<csv, tableAtStart, csvAtStart>>
    /\ UNCHANGED otherVars

\* save_to_db: the rows of the valid posts are written and committed
SaveToDb ==
    /\ pc = "gathered"
    /\ posts # <<>>
    /\ ReturnToMain
    /\ LET valid_posts == ValidPosts(posts)
       IN  IF RaisesKeyError(valid_posts)
           THEN /\ pc' = "raised"
                /\ err' = "KeyError"
                /\ UNCHANGED <<pending, table>>
           ELSE /\ pc' = "db_saved"
                /\ table' = ExecuteMany(table, Rows(valid_posts))
                /\ UNCHANGED <<pending, err>>
    /\ UNCHANGED <<csv, tableAtStart, csvAtStart>>
    /\ UNCHANGED otherVars

\* the storage failure, with one thing changed: the error is logged and
\* main goes on (Caught), every statement commits at once (Autocommit), the
\* export is written before the table (AfterCsv)
StorageFailure(k) ==
    /\ pc = "gathered"
    /\ posts # <<>>
    /\ ReturnToMain
    /\ ~RaisesKeyError(ValidPosts(posts))
    /\ k \in 1..Len(ValidPosts(posts))
    /\ err' = "sqlite3.Error"
    /\ UNCHANGED <<tableAtStart, csvAtStart>>
    /\ UNCHANGED otherVars

SaveToDbFailsCaught(k) ==
    /\ StorageFailure(k)
    /\ pending' = SubSeq(Rows(ValidPosts(posts)), 1, k - 1)
    /\ pc' = "db_saved"
    /\ UNCHANGED <<table, csv>>

SaveToDbFailsAutocommit(k) ==
    /\ StorageFailure(k)
    /\ table' = ExecuteMany(table, SubSeq(Rows(ValidPosts(posts)), 1, k - 1))
    /\ pc' = "raised"
    /\ UNCHANGED <<pending, csv>>

SaveToDbFailsAfterCsv(k) ==
    /\ StorageFailure(k)
    /\ pending' = SubSeq(Rows(ValidPosts(posts)), 1, k - 1)
    /\ csv' = CsvContents(csv, posts)
    /\ pc' = "raised"
    /\ UNCHANGED table

\* save_to_db: the storage fails on the k-th row of executemany; the rows
\* before it stay uncommitted and the exception leaves main
SaveToDbFails(k) ==
    /\ pc = "gathered"
    /\ posts # <<>>
    /\ ReturnToMain
    /\ LET valid_posts == ValidPosts(posts)
       IN  /\ ~RaisesKeyError(valid_posts)
           /\ k \in 1..Len(valid_posts)
           /\ pending' = SubSeq(Rows(valid_posts), 1, k - 1)
    /\ pc' = "raised"
    /\ err' = "sqlite3.Error"
    /\ UNCHANGED <<table, csv, tableAtStart, csvAtStart>>
    /\ UNCHANGED otherVars

\* save_to_csv: the file is replaced by the header and one row per post
SaveToCsv ==
    /\ pc = "db_saved"
    /\ csv' = CsvContents(csv, posts)
    /\ pc' = "finished"
    /\ UNCHANGED <<runs, issued, results, posts, summary, err, doneLog>>
    /\ UNCHANGED <<pending, table, tableAtStart, csvAtStart>>
    /\ UNCHANGED otherVars
    /\ UNCHANGED fetchVars

\* the process ends ("finally: conn.close()"): uncommitted rows are rolled
\* back, the table and the file stay
ProcessExit ==
    /\ pc \in {"finished", "raised"}
    /\ pc' = "idle"
    /\ pending' = <<>>
    /\ posts' = <<>>
    /\ err' = "none"
    /\ UNCHANGED <<runs, issued, results, summary, doneLog>>
    /\ UNCHANGED <<table, csv, tableAtStart, csvAtStart>>
    /\ UNCHANGED otherVars
    /\ UNCHANGED fetchVars

Next ==
    \/ \E ids \in Batches : StartRun(ids)
    \/ \E i \in Slots : FetchStart(i)
    \/ \E i \in Slots, r \in Responses : FetchComplete(i, r)
    \/ GatherReturn
    \/ SkipSinks
    \/ SaveToDb
    \/ \E k \in 1..MaxBatch : SaveToDbFails(k)
    \/ SaveToCsv
    \/ ProcessExit

Spec == Init /\ [][Next]_vars

TypeOK ==
    /\ runs \in 0..MaxRuns
    /\ issued \in 0..MaxRequests
    /\ pc \in {"idle", "fetching", "gathered", "db_saved", "finished", "raised"}
    /\ Len(post_ids) <= MaxBatch

\* ------------------------------------------------ validate_product, as a run
\* validate_product is called on a product
InitValidate ==
    /\ InitPipeline
    /\ InitTaskStore
    /\ product \in ProductsOver(IdValues, NameValues, PriceValues)
    /\ outcome = NotCalled

ValidateCall ==
    /\ outcome = NotCalled
    /\ outcome' = ValidateProduct(product)
    /\ UNCHANGED <<product, pipelineVars, taskVars>>

NextValidate == ValidateCall

SpecValidate == InitValidate /\ [][NextValidate]_vars

\* ------------------------------------------------------ task store, as a run
Line(level, msg) == [level |-> level, msg |-> msg]

\* INSERT INTO tasks: the next id of AUTOINCREMENT, or IntegrityError
InsertTask(row) ==
    IF SchemaAccepts(row)
    THEN [t |-> "ok", tasks |-> [k \in DOMAIN tasks \cup {seq + 1} |->
                                    IF k = seq + 1 THEN row ELSE tasks[k]],
          seq |-> seq + 1]
    ELSE [t |-> "IntegrityError", tasks |-> tasks, seq |-> seq]

\* add_task(title, description, due_date, status)
AddTask(title, description, due_date, status) ==
    LET titleLine == IF ~TruthyText(title) THEN <<Line("ERROR", "Title is required.")>>
                     ELSE <<>>
        stored == IF status.t = "None" THEN Text(DefaultStatus) ELSE status
        statusLine == IF status.t = "None"
                      THEN <<Line("INFO", "No status provided. Defaulting to 'pending'.")>>
                      ELSE <<>>
        row == [title |-> title, description |-> description, due_date |-> due_date,
                status |-> stored]
        ins == InsertTask(row)
    IN  /\ seq < MaxTasks
        /\ IF status.t # "None" /\ ~(status.t = "str" /\ status.s \in VALID_STATUSES)
           THEN /\ logged' = titleLine \o <<Line("ERROR", "Invalid status")>>
                /\ UNCHANGED <<tasks, seq>>
           ELSE IF Strptime(due_date).t \in {"TypeError", "ValueError"}
           THEN /\ logged' = titleLine \o statusLine
                             \o <<Line("ERROR", "Invalid date format! Use YYYY-MM-DD.")>>
                /\ UNCHANGED <<tasks, seq>>
           ELSE /\ tasks' = ins.tasks
                /\ seq' = ins.seq
                /\ logged' = titleLine \o statusLine
                             \o <<IF ins.t = "ok" THEN Line("INFO", "Task added successfully.")
                                  ELSE Line("ERROR", "Integrity error")>>
        /\ UNCHANGED <<pipelineVars, validateVars>>

UpdateTaskStatusAllRows(task_id, status) ==
    /\ IF ~IsValidInteger(task_id)
       THEN /\ logged' = <<Line("ERROR", "Invalid task ID")>>
            /\ UNCHANGED tasks
       ELSE IF ~(status.t = "str" /\ status.s \in VALID_STATUSES)
       THEN /\ logged' = <<Line("ERROR", "Invalid status")>>
            /\ UNCHANGED tasks
       ELSE IF CountWithId(tasks, task_id) = 0
       THEN /\ logged' = <<Line("ERROR", "Task does not exist.")>>
            /\ UNCHANGED tasks
       ELSE /\ tasks' = [k \in DOMAIN tasks |-> [tasks[k] EXCEPT !.status = status]]
            /\ logged' = <<Line("INFO", "Task updated.")>>
    /\ UNCHANGED <<seq, pipelineVars, validateVars>>

\* update_task_status(task_id, status)
UpdateTaskStatus(task_id, status) ==
    /\ IF ~IsValidInteger(task_id)
       THEN /\ logged' = <<Line("ERROR", "Invalid task ID")>>
            /\ UNCHANGED tasks
       ELSE IF ~(status.t = "str" /\ status.s \in VALID_STATUSES)
       THEN /\ logged' = <<Line("ERROR", "Invalid status")>>
            /\ UNCHANGED tasks
       ELSE IF CountWithId(tasks, task_id) = 0
       THEN /\ logged' = <<Line("ERROR", "Task does not exist.")>>
            /\ UNCHANGED tasks
       ELSE LET id == IntOf(task_id.s).value
                row == [tasks[id] EXCEPT !.status = status]
            IN  IF SchemaAccepts(row)
                THEN /\ tasks' = [tasks EXCEPT ![id] = row]
                     /\ logged' = <<Line("INFO", "Task updated.")>>
                ELSE /\ logged' = <<Line("ERROR", "Integrity error")>>
                     /\ UNCHANGED tasks
    /\ UNCHANGED <<seq, pipelineVars, validateVars>>

\* delete_task(task_id)
DeleteTask(task_id) ==
    /\ IF ~IsValidInteger(task_id)
       THEN /\ logged' = <<Line("ERROR", "Invalid task ID")>>
            /\ UNCHANGED tasks
       ELSE IF CountWithId(tasks, task_id) = 0
       THEN /\ logged' = <<Line("ERROR", "Task doesn't exist.")>>
            /\ UNCHANGED tasks
       ELSE /\ tasks' = [k \in DOMAIN tasks \ {IntOf(task_id.s).value} |-> tasks[k]]
            /\ logged' = <<Line("INFO", "Task deleted.")>>
    /\ UNCHANGED <<seq, pipelineVars, validateVars>>

NextTasks ==
    \/ \E title \in Titles, description \in Descriptions, due_date \in DueDates,
          status \in StatusArgs : AddTask(title, description, due_date, status)
    \/ \E task_id \in TaskIdArgs, status \in StatusArgs : UpdateTaskStatus(task_id, status)
    \/ \E task_id \in TaskIdArgs : DeleteTask(task_id)

SpecTasks == Init /\ [][NextTasks]_vars

\* ----------------------------------------------------------------- claims
Gathered == pc = "gathered"

IsFailure(r) ==
    \/ r.kind \in {"timeout", "neterror"}
    \/ r.kind = "http" /\ r.status # HTTP_OK
    \/ r.kind = "http" /\ r.status = HTTP_OK /\ r.ctype \in {HtmlContentType, NoContentType}

\* a 200 answer with a JSON content type whose body is JSON text
IsJsonAnswer(r) ==
    /\ r.kind = "http"
    /\ r.status = HTTP_OK
    /\ r.ctype = JsonContentType
    /\ r.body.json \in {"object", "null"}

\* a 200 answer with a JSON content type whose body is a JSON object
IsObjectAnswer(r) == IsJsonAnswer(r) /\ r.body.json = "object"

SuccessSlots == {i \in Slots : results[i] # PyNone}

\* the k-th smallest element of a set of positions
Nth(S, k) == CHOOSE i \in S : Cardinality({j \in S : j <= i}) = k

\* the completion order of the run differs from the order of the batch
CompletedOutOfOrder ==
    \E k \in 1..Len(doneLog) : doneLog[k].idx # k

\* C1 as stated: the sequence fetch_all_posts returns has as many elements as
\* the identifier batch, element i being the outcome of the request for
\* identifiers[i].
C1_ReturnedMirrorsBatch ==
    Gathered =>
        /\ Len(posts) = Len(post_ids)
        /\ \A i \in Slots : posts[i] = FetchPost(resp[i])

\* C1 amended: the outcome sequence the gather yields inside fetch_all_posts
\* has as many elements as the batch, element i being the outcome of the
\* request built from identifiers[i]; the returned sequence is that sequence
\* without the failures, so its length is the number of successes.
C1_OutcomesMirrorBatch ==
    Gathered =>
        /\ Len(results) = Len(post_ids)
        /\ \A i \in Slots :
              /\ req[i] = DEFAULT_URL \o ToString(post_ids[i])
              /\ results[i] = FetchPost(resp[i])
        /\ Len(posts) = Cardinality(SuccessSlots)
        /\ Len(posts) <= Len(post_ids)

C1_Witness ==
    /\ Gathered
    /\ Len(post_ids) = 2
    /\ post_ids[1] # post_ids[2]
    /\ CompletedOutOfOrder
    /\ IsFailure(resp[1])
    /\ IsObjectAnswer(resp[2])
    /\ Len(posts) = 1

\* C2: whatever the completion order of the fetches, the payloads returned by
\* fetch_all_posts are in the order of their identifiers in the batch: the
\* k-th returned payload is the payload answered at the k-th successful
\* position.
C2_ResultOrderIsInputOrder ==
    Gathered =>
        LET S == {i \in Slots : IsObjectAnswer(resp[i])}
        IN  /\ Len(posts) = Cardinality(S)
            /\ \A k \in 1..Len(posts) : posts[k] = PyDict(resp[Nth(S, k)].body.d)

C2_Witness ==
    /\ Gathered
    /\ Len(posts) = 2
    /\ posts[1] # posts[2]
    /\ doneLog[1].idx = 2
    /\ doneLog[2].idx = 1

\* C3: no exception leaves fetch_post or fetch_all_posts: a timeout, a
\* non-200 status, a non-JSON content type and a transport fault all end as
\* a returned failure, every fetch of the batch completes, and a payload
\* fetched beside failing fetches is in the result.
C3_FailuresAreIsolated ==
    /\ err \notin {"TimeoutError", "ClientError", "JSONDecodeError"}
    /\ Gathered =>
          \A i \in Slots :
              /\ task[i] = "done"
              /\ IsFailure(resp[i]) => results[i] = PyNone
              /\ IsObjectAnswer(resp[i]) =>
                    \E k \in 1..Len(posts) : posts[k] = PyDict(resp[i].body.d)

C3_Witness ==
    /\ Gathered
    /\ Len(post_ids) = 2
    /\ resp[1].kind = "neterror"
    /\ IsObjectAnswer(resp[2])
    /\ posts = <<PyDict(resp[2].body.d)>>
    /\ err = "none"

\* C4: a 200 answer with a JSON content type is a success for every JSON
\* body, kept by the aggregation and counted as a success; every other
\* answer is a failure.
C4_EveryJsonBodyIsSuccess ==
    Gathered =>
        /\ \A i \in Slots :
              /\ IsJsonAnswer(resp[i]) => results[i] # PyNone
              /\ IsFailure(resp[i]) => results[i] = PyNone
        /\ summary.ok = Cardinality({i \in Slots : IsJsonAnswer(resp[i])})
        /\ Len(posts) = summary.ok

\* C5: every position of the batch gets one fetch attempt and one outcome:
\* once a position is done its outcome never changes and no further request
\* is issued for it, and when the gather returns every position has had
\* exactly one attempt and one outcome.
C5_OneAttemptOneOutcome ==
    /\ [][pc' \in {"fetching", "gathered"} =>
            \A i \in Slots :
                task[i] = "done" =>
                    /\ task'[i] = "done"
                    /\ resp'[i] = resp[i]
                    /\ attempts'[i] = attempts[i]]_vars
    /\ [](\A i \in Slots : attempts[i] <= 1)
    /\ [](Gathered =>
            \A i \in Slots :
                /\ attempts[i] = 1
                /\ task[i] = "done"
                /\ Cardinality({k \in 1..Len(doneLog) : doneLog[k].idx = i}) = 1)

C5_Witness ==
    /\ Gathered
    /\ Len(post_ids) = 2
    /\ post_ids[1] = post_ids[2]
    /\ IsFailure(resp[1])
    /\ IsObjectAnswer(resp[2])
    /\ attempts = <<1, 1>>

\* the data rows of the export: the lines after the header
DataRows(file) == IF file = <<>> THEN <<>> ELSE Tail(file)

RowSet(rows) == {rows[k] : k \in 1..Len(rows)}

\* the rowids of the rows of a table that carry an id
RowsWithId(t, id) == {k \in DOMAIN t : t[k].id = id}

IsComplete(post) == post # PyNone /\ Keys \subseteq DOMAIN post.d

CompleteIdx == {i \in 1..Len(posts) : IsComplete(posts[i])}

\* the main coroutine ran to its end, the export write included
WroteExport == pc = "finished" /\ posts # <<>>

\* C6 as stated: every row of the relational table and every row of the
\* tabular export corresponds to a complete payload.
C6_NoPartialRowInEitherSink ==
    WroteExport =>
        /\ \A k \in DOMAIN table :
              \E p \in Payloads : Keys \subseteq DOMAIN p /\ table[k] = Row(PyDict(p))
        /\ \A k \in 1..Len(posts) :
              csv[k + 1] = CsvRow(posts[k]) => IsComplete(posts[k])

\* C6 amended: every row of the relational table corresponds to a complete
\* payload, an incomplete payload being skipped without an error; the export
\* is not filtered and has a row for every aggregated payload.
C6_TableRowsAreComplete ==
    /\ err # "KeyError"
    /\ \A k \in DOMAIN table :
          \E p \in Payloads : Keys \subseteq DOMAIN p /\ table[k] = Row(PyDict(p))
    /\ pc \in {"db_saved", "finished"} =>
          \A k \in DOMAIN table :
              \/ k \in DOMAIN tableAtStart /\ table[k] = tableAtStart[k]
              \/ \E i \in CompleteIdx : table[k] = Row(posts[i])
    /\ WroteExport =>
          /\ Len(csv) = Len(posts) + 1
          /\ \A k \in 1..Len(posts) : csv[k + 1] = CsvRow(posts[k])

C6_Witness ==
    /\ WroteExport
    /\ Len(posts) = 2
    /\ IsComplete(posts[1])
    /\ ~IsComplete(posts[2])
    /\ DOMAIN posts[2].d # {}
    /\ DOMAIN table = {posts[1].d["id"]}
    /\ Len(csv) = 3
    /\ csv[3][3] = ""

\* C7 as stated: after a run, the number of data rows of the export is the
\* number of successful payloads of that run, a run with no success included.
C7_ExportCountIsLastRunCount ==
    pc = "finished" => Len(DataRows(csv)) = Len(posts)

\* C7 amended: after a run that reaches the export write (one success at
\* least, relational write not failed) the data rows of the export are the
\* rows of that run's successful payloads, as many and in their order, and
\* none is from an earlier run; a run with no success, or one the relational
\* write aborted, leaves the export as it was.
C7_ExportIsLastWritingRun ==
    /\ WroteExport =>
          /\ Len(DataRows(csv)) = Len(posts)
          /\ \A k \in 1..Len(posts) : DataRows(csv)[k] = CsvRow(posts[k])
          /\ csv[1] = fieldnames
    /\ (pc = "finished" /\ posts = <<>>) => csv = csvAtStart
    /\ pc = "raised" => csv = csvAtStart

C7_Witness ==
    /\ pc = "finished"
    /\ posts = <<>>
    /\ runs = 2
    /\ Len(DataRows(csv)) = 1
    /\ csv = csvAtStart

\* C8: of two runs with disjoint non-empty sets of successful payloads, the
\* second leaves the export with exactly its own rows and none of the
\* first's.
C8_ExportOverwritten ==
    (/\ WroteExport
     /\ DataRows(csvAtStart) # <<>>
     /\ RowSet(DataRows(csvAtStart)) \cap {CsvRow(posts[k]) : k \in 1..Len(posts)} = {})
    => /\ RowSet(DataRows(csv)) = {CsvRow(posts[k]) : k \in 1..Len(posts)}
       /\ RowSet(DataRows(csv)) \cap RowSet(DataRows(csvAtStart)) = {}
       /\ Len(csv) = 1 + Len(posts)

C8_Witness ==
    /\ WroteExport
    /\ runs = 2
    /\ Len(DataRows(csvAtStart)) = 2
    /\ Len(posts) = 1
    /\ RowSet(DataRows(csvAtStart)) \cap {CsvRow(posts[1])} = {}
    /\ csv = <<fieldnames, CsvRow(posts[1])>>

\* C9: upserting a complete payload that was upserted before, in the same
\* batch or in an earlier run, leaves one row for its id, and a batch whose
\* payloads are all in the table already leaves the table as it was.
C9_UpsertIdempotent ==
    pc = "db_saved" =>
        /\ \A i \in CompleteIdx : Cardinality(RowsWithId(table, posts[i].d["id"])) = 1
        /\ (\A i \in CompleteIdx :
               \E k \in DOMAIN tableAtStart : tableAtStart[k] = Row(posts[i]))
           => table = tableAtStart

C9_Witness ==
    /\ pc = "db_saved"
    /\ runs = 2
    /\ Len(posts) = 1
    /\ IsComplete(posts[1])
    /\ Cardinality(DOMAIN tableAtStart) = 1
    /\ \E k \in DOMAIN tableAtStart : tableAtStart[k] = Row(posts[1])
    /\ table = tableAtStart

\* C10: after the relational write an id carried by complete payloads of the
\* batch has exactly one row, with the contents of the last of them in the
\* order of the batch, whether or not the id had a row before; the rows of
\* the other ids are as before the run.
C10_LastWriteWins ==
    pc = "db_saved" =>
        \A id \in Ids :
            LET L == {i \in CompleteIdx : posts[i].d["id"] = id}
                last == CHOOSE i \in L : \A j \in L : j <= i
            IN  IF L # {}
                THEN /\ Cardinality(RowsWithId(table, id)) = 1
                     /\ \A k \in RowsWithId(table, id) : table[k] = Row(posts[last])
                ELSE /\ RowsWithId(table, id) = RowsWithId(tableAtStart, id)
                     /\ \A k \in RowsWithId(table, id) : table[k] = tableAtStart[k]

C10_Witness ==
    /\ pc = "db_saved"
    /\ DOMAIN tableAtStart = {1, 2}
    /\ Len(posts) = 1
    /\ IsComplete(posts[1])
    /\ posts[1].d["id"] = 1
    /\ tableAtStart[1] # Row(posts[1])
    /\ table[1] = Row(posts[1])
    /\ table[2] = tableAtStart[2]

C10_WitnessSameBatch ==
    /\ pc = "db_saved"
    /\ Len(posts) = 2
    /\ IsComplete(posts[1]) /\ IsComplete(posts[2])
    /\ posts[1].d["id"] = posts[2].d["id"]
    /\ posts[1] # posts[2]
    /\ table[posts[2].d["id"]] = Row(posts[2])

\* the cells of the export row that carries a table row
RowCells(row) == <<ToString(row.id), ToString(row.user_id), row.title, row.body>>

\* an export row without an empty cell: the row of a complete payload
IsCompleteRow(cells) == \A c \in 1..Len(cells) : cells[c] # ""

\* the run is over: the process has ended or is about to
RunOver == pc \in {"idle", "finished", "raised"}

\* C11: a run whose every fetch fails (empty aggregated list) modifies
\* neither sink: the table and the export are as they were before the run.
C11_EmptyRunTouchesNoSink ==
    (pc \in {"gathered", "finished"} /\ posts = <<>>) =>
        /\ table = tableAtStart
        /\ csv = csvAtStart
        /\ pending = <<>>

C11_Witness ==
    /\ pc = "finished"
    /\ posts = <<>>
    /\ runs = 2
    /\ DOMAIN table # {}
    /\ Len(csv) = 3
    /\ table = tableAtStart
    /\ csv = csvAtStart

\* C12: a fetched payload that lacks a required field gives no relational
\* row but one export row, with an empty cell for each missing field and
\* the value in the others: the two sinks diverge on it.
C12_IncompleteOnlyInExport ==
    WroteExport =>
        /\ (CompleteIdx = {}) => table = tableAtStart
        /\ \A k \in DOMAIN table :
              \/ k \in DOMAIN tableAtStart /\ table[k] = tableAtStart[k]
              \/ \E i \in CompleteIdx : RowCells(table[k]) = csv[i + 1]
        /\ \A i \in 1..Len(posts) :
              ~IsComplete(posts[i]) =>
                  /\ Len(csv) > i
                  /\ \A c \in 1..Len(fieldnames) :
                        (csv[i + 1][c] = "") <=> (fieldnames[c] \notin DOMAIN posts[i].d)

C12_Witness ==
    /\ WroteExport
    /\ Len(posts) = 1
    /\ DOMAIN posts[1].d = Keys \ {"title"}
    /\ table = <<>>
    /\ csv = <<fieldnames, <<"1", "7", "", "x">>>>

\* C13: within a run no write to the table or to the export happens while
\* a fetch of the batch is still pending: a step that changes a sink is
\* taken after the gather has returned, with every fetch done.
C13_SinksAfterAllFetches ==
    [][(table' # table \/ csv' # csv \/ pending' # pending) =>
          /\ pc \in {"gathered", "db_saved", "raised"}
          /\ \A i \in Slots : task[i] = "done"
          /\ Len(results) = Len(post_ids)]_vars

C13_Witness ==
    /\ pc = "finished"
    /\ Len(posts) = 2
    /\ table # tableAtStart
    /\ csv # csvAtStart

\* C14: a failure of the relational batch write is fatal for the run:
\* neither save_to_db nor main catches it, the run is aborted there and
\* nothing more of it is executed, the export write included.
C14_StorageFailureIsFatal ==
    /\ [](err = "sqlite3.Error" => pc = "raised" /\ csv = csvAtStart)
    /\ [][pc = "raised" => pc' = "idle" /\ csv' = csv /\ table' = table]_vars

C14_Witness ==
    /\ pc = "raised"
    /\ err = "sqlite3.Error"
    /\ Len(posts) = 2
    /\ csv = csvAtStart
    /\ runs = 2
    /\ Len(csv) = 2

\* C16: the export is the header id, userId, title, body followed by one
\* row per payload of the aggregated list, in its order, a payload that is
\* in the list twice having two rows.
C16_ExportIsHeaderAndRowPerPayload ==
    WroteExport =>
        /\ Len(csv) = 1 + Len(posts)
        /\ csv[1] = <<"id", "userId", "title", "body">>
        /\ \A i \in 1..Len(posts) : \A c \in 1..Len(csv[i + 1]) :
              LET key == csv[1][c]
              IN  IF key \notin DOMAIN posts[i].d THEN csv[i + 1][c] = ""
                  ELSE IF key \in {"title", "body"} THEN csv[i + 1][c] = posts[i].d[key]
                  ELSE csv[i + 1][c] = ToString(posts[i].d[key])

C16_Witness ==
    /\ WroteExport
    /\ Len(posts) = 2
    /\ posts[1] = posts[2]
    /\ IsComplete(posts[1])
    /\ Len(csv) = 3
    /\ csv[2] = csv[3]
    /\ csv[2] = <<"2", "7", "a", "x">>

\* C17: the fetches of a batch are dispatched together, without a cap: a
\* fetch that has not started can start whatever the state of the fetches
\* before it, none of which it waits for, so that all the requests of a
\* batch can be in flight at once.
C17_NoFetchWaitsForAnother ==
    pc = "fetching" =>
        \A i \in Slots :
            (task[i] = "created" /\ \A j \in 1..(i - 1) : task[j] # "created")
                => ENABLED FetchStart(i)

C17_Witness ==
    /\ pc = "fetching"
    /\ Len(post_ids) = MaxBatch
    /\ \A i \in Slots : task[i] = "inflight"

\* C18: the relational batch write is all or nothing: when the storage
\* fails part-way the rows written before stay uncommitted, the table is as
\* before the run and stays so when the process ends; when the write
\* succeeds every complete payload of the batch has its row.
C18_BatchWriteAllOrNothing ==
    /\ [](pc = "raised" => table = tableAtStart)
    /\ [][(pc = "raised" /\ pc' = "idle") => (table' = tableAtStart /\ pending' = <<>>)]_vars
    /\ [](pc = "db_saved" =>
            /\ pending = <<>>
            /\ \A i \in CompleteIdx :
                  \E k \in DOMAIN table : table[k].id = posts[i].d["id"])

C18_Witness ==
    /\ pc = "raised"
    /\ err = "sqlite3.Error"
    /\ Len(pending) = 1
    /\ DOMAIN tableAtStart = {}
    /\ table = tableAtStart

\* the last export row of those that satisfy Keep and carry the id
LastRowWith(id, Keep(_)) ==
    LET L == {k \in 2..Len(csv) : csv[k][1] = ToString(id) /\ Keep(csv[k])}
    IN  csv[CHOOSE k \in L : \A j \in L : j <= k]

\* C19 as stated: after any sequence of runs every complete payload row of
\* the export has a table row with its id, equal to the last export row
\* with that id.
C19_TableEqualsLastExportRow ==
    RunOver =>
        \A k \in 2..Len(csv) :
            IsCompleteRow(csv[k]) =>
                \E id \in DOMAIN table :
                    /\ ToString(id) = csv[k][1]
                    /\ RowCells(table[id]) = LastRowWith(id, LAMBDA cells : TRUE)

\* C19 amended: the export is written only after the relational write of
\* the run has committed, so after any sequence of runs every complete
\* payload row of the export has a table row with its id, equal to the last
\* complete payload row of the export with that id; a run whose relational
\* write fails leaves the export untouched.
C19_TableEqualsLastCompleteExportRow ==
    /\ RunOver =>
          \A k \in 2..Len(csv) :
              IsCompleteRow(csv[k]) =>
                  \E id \in DOMAIN table :
                      /\ ToString(id) = csv[k][1]
                      /\ RowCells(table[id]) = LastRowWith(id, IsCompleteRow)
    /\ pc = "raised" => csv = csvAtStart
    /\ csv # csvAtStart => pc \in {"finished", "idle"} /\ pending = <<>>

C19_Witness ==
    /\ pc = "idle"
    /\ runs = 2
    /\ Len(csv) = 3
    /\ IsCompleteRow(csv[2])
    /\ csv[3][1] = csv[2][1]
    /\ csv[3] # csv[2]
    /\ IsCompleteRow(csv[3])
    /\ RowCells(table[1]) = csv[3]

\* the product the claim accepts: all four fields, an id of digits, a price
\* that is a number greater than 0, a name and a category that are not
\* empty once stripped
IsTextOfDigits(value) == value.t = "str" /\ IsDigit(Strip(value.s))

IsNumberAboveZero(value) ==
    /\ value.t = "str"
    /\ ParseFloat(value.s).t = "num"
    /\ ParseFloat(value.s).value > 0

IsNonEmptyStripped(value) == value.t = "str" /\ Strip(value.s) # <<>>

WellFormedProduct(p) ==
    /\ {"id", "name", "price", "category"} \subseteq DOMAIN p
    /\ IsTextOfDigits(p["id"])
    /\ IsNumberAboveZero(p["price"])
    /\ IsNonEmptyStripped(p["name"])
    /\ IsNonEmptyStripped(p["category"])

\* C15 as stated: validate_product returns True exactly for the products
\* with all four fields, an id of digits, a price that is a number above 0
\* and a non-empty stripped name and category; for every other product it
\* returns False and logs a "Validation error" line; it never raises.
C15_ValidateExactlyWellFormed ==
    outcome.t # "not called" =>
        /\ outcome.t = "return"
        /\ outcome.value <=> WellFormedProduct(product)
        /\ ~outcome.value =>
              \E i \in 1..Len(outcome.log) : outcome.log[i].prefix = "Validation error"

\* a task store row's status is one of the three
HasValidStatus(row) ==
    row.status.t = "str" /\ row.status.s \in {"pending", "in_progress", "completed"}

\* the statuses that are given and are none of the three
OtherStatuses == {s \in StatusArgs : s.t = "str" /\ s.s \notin {"pending", "in_progress", "completed"}}

\* the due dates strptime parses
ParsedDueDates == {d \in DueDates : Strptime(d).t = "date"}

\* C20: after any sequence of add_task, update_task_status, delete_task
\* calls every stored task has a status among pending, in_progress,
\* completed; add_task or update_task_status with another status changes
\* nothing; add_task without a status stores the task as pending.
C20_StoredStatusesAreValid ==
    /\ [](\A k \in DOMAIN tasks : HasValidStatus(tasks[k]))
    /\ [][(tasks' # tasks \/ seq' # seq) =>
             /\ \A title \in Titles, description \in Descriptions, due_date \in DueDates,
                   status \in OtherStatuses :
                     ~AddTask(title, description, due_date, status)
             /\ \A task_id \in TaskIdArgs, status \in OtherStatuses \cup {PyNone} :
                     ~UpdateTaskStatus(task_id, status)]_vars
    /\ [][\A title \in Titles \ {PyNone}, description \in Descriptions,
             due_date \in ParsedDueDates :
               AddTask(title, description, due_date, PyNone)
                   => /\ DOMAIN tasks' = DOMAIN tasks \cup {seq'}
                      /\ seq' \notin DOMAIN tasks
                      /\ tasks'[seq'].status = Text("pending")]_vars

C20_Witness ==
    /\ logged = <<Line("ERROR", "Invalid status")>>
    /\ DOMAIN tasks = {1, 2}
    /\ tasks[1].status = Text("pending")
    /\ tasks[2].status = Text("completed")

\* C21 as stated: add_task with an empty or missing title, or with a due
\* date that is not a date in the form YYYY-MM-DD, adds no task: the stored
\* tasks are after the call what they were before it.
C21_RejectedAddStoresNothing ==
    [][\A title \in Titles, description \in Descriptions, due_date \in DueDates,
          status \in StatusArgs :
            ((~TruthyText(title) \/ due_date \notin ParsedDueDates)
                /\ AddTask(title, description, due_date, status))
                => tasks' = tasks]_vars

\* the stored tasks whose id is written as the text: none when the text is
\* not the canonical decimal form of an integer
TasksWrittenAs(task_id) == {k \in DOMAIN tasks : IntChars(k) = task_id.s}

\* the row but for its status
WithoutStatus(row) ==
    [title |-> row.title, description |-> row.description, due_date |-> row.due_date]

\* C22: update_task_status and delete_task with a task id that is not a
\* canonical integer text or that matches no stored task leave the store as
\* it is; with the id of a stored task update_task_status changes the status
\* of that task and nothing else, delete_task removes that task and nothing
\* else.
C22_UpdateAndDeleteTouchOneTask ==
    [][\A task_id \in TaskIdArgs :
          LET hit == TasksWrittenAs(task_id)
              OnlyStatusOfHit(status) ==
                  /\ DOMAIN tasks' = DOMAIN tasks
                  /\ \A k \in DOMAIN tasks \ hit : tasks'[k] = tasks[k]
                  /\ \A k \in hit :
                        /\ WithoutStatus(tasks'[k]) = WithoutStatus(tasks[k])
                        /\ tasks'[k].status \in {tasks[k].status, status}
                        /\ HasValidStatus([status |-> status]) => tasks'[k].status = status
              OnlyHitRemoved ==
                  /\ DOMAIN tasks' = DOMAIN tasks \ hit
                  /\ \A k \in DOMAIN tasks' : tasks'[k] = tasks[k]
          IN  /\ \A status \in StatusArgs :
                    OnlyStatusOfHit(status) \/ ~UpdateTaskStatus(task_id, status)
              /\ OnlyHitRemoved \/ ~DeleteTask(task_id)]_vars

C22_Witness ==
    /\ logged = <<Line("INFO", "Task updated.")>>
    /\ DOMAIN tasks = {1, 2}
    /\ tasks[1].status = Text("pending")
    /\ tasks[2].status = Text("completed")
    /\ tasks[1].title # tasks[2].title

====
